---- MODULE Spec2Model ----
(***************************************************************************)
(* Model of the time-series reconciliation engine of samsmart_pd_boxes     *)
(* (src/samsmart_pd_boxes/etl.py): index_by_timestamp,                     *)
(* outer_join_by_timestamp, merge, downsample, _round_timestamps,         *)
(* timeframes_by_source, check_households, all_timeframe_records and       *)
(* all_household_records.                                                  *)
(*                                                                         *)
(* A table (pandas DataFrame) is a record                                  *)
(*   [columns |-> sequence of column labels,                               *)
(*    index_name |-> "timestamp" when the timestamp is the index, else "", *)
(*    rows |-> sequence of [timestamp |-> t, vals |-> cells]]              *)
(* where vals holds one cell per column other than "timestamp".  A cell is *)
(* <<v>> for the number v and <<>> for the missing marker (NaN).           *)
(***************************************************************************)
EXTENDS Integers, Sequences, FiniteSets, TLC

VARIABLES
    pc,                    \* position of the modelled call sequence
    df,                    \* index_by_timestamp: the raw single-sensor table
    aggregation_function,  \* index_by_timestamp / downsample: the rule
    level_key_kept,        \* build: groupby(as_index=False) keeps an index-level key
    indexed,               \* outcome of index_by_timestamp(df, rule)
    reindexed,             \* outcome of index_by_timestamp on that outcome
    dfs,                   \* merge: the raw per-sensor tables
    aggregation_functions, \* merge: None or a mapping label -> rule
    merged,                \* outcome of merge(dfs, aggregation_functions)
    joined_perm,           \* outer_join_by_timestamp of the permuted series
    joined_df,             \* downsample: the wide table
    timedelta,             \* downsample: the bin width, e.g. "1min"
    downsampled,           \* outcome of downsample
    households,            \* check_households: per household the reference of its timeframes list
    heap,                  \* the list objects: heap[r] is the list with reference r
    checked,               \* outcome of check_households(households)
    rechecked,             \* the same timeframes in another order, and the outcome for them
    fetches,               \* per timeframe and sensor, what historical does
    timeframe_records,     \* outcome of all_timeframe_records
    household_records      \* outcome of all_household_records

indexVars == <<df, indexed, reindexed>>

mergeVars == <<dfs, aggregation_functions, merged, joined_perm>>

downVars == <<joined_df, timedelta, downsampled>>

checkVars == <<households, heap, checked, rechecked>>

fetchVars == <<fetches, timeframe_records, household_records>>

vars == <<pc, aggregation_function, level_key_kept, indexVars, mergeVars,
          downVars, checkVars, fetchVars>>

\* ---------------------------------------------------------------- bounds
MaxLen == 3     \* rows of a raw table
MaxTs == 2      \* distinct timestamps 1..MaxTs of the raw tables
MaxVal == 2     \* sensor values 1..MaxVal
MaxTables == 2  \* raw tables handed to one merge call
MaxMergeRows == 2  \* rows of all well-shaped tables of one merge call
MaxRows == 2    \* rows of the wide table handed to downsample
MaxHouseholds == 2  \* households of the mapping handed to check_households
MaxTimeframes == 2  \* timeframes of all those households together

\* ---------------------------------------------------------------- values
NaN == <<>>

Cell == {NaN} \cup {<<v>> : v \in 1..MaxVal}

Timestamps == 1..MaxTs

\* the cells of the tables handed to merge and to downsample
FewCells == {NaN, <<1>>, <<2>>}

\* sensor labels; the k-th table of a merge call carries LabelSeq[k]
LabelSeq == <<"Gas", "Temp", "Hum", "CO2", "Lux">>

\* the reducers pandas' agg accepts by name that the model covers
AggRules == {"first", "last", "sum", "min", "max", "count"}

Range(s) == {s[i] : i \in DOMAIN s}

SeqsUpTo(S, n) == UNION {[1..k -> S] : k \in 0..n}

Min(S) == CHOOSE x \in S : \A y \in S : x <= y

Max(S) == CHOOSE x \in S : \A y \in S : x >= y

RECURSIVE SortedSeq(_)
SortedSeq(S) == IF S = {} THEN <<>> ELSE <<Min(S)>> \o SortedSeq(S \ {Min(S)})

RECURSIVE SumSeq(_)
SumSeq(s) == IF s = <<>> THEN 0 ELSE Head(s) + SumSeq(Tail(s))

Row(t, cells) == [timestamp |-> t, vals |-> cells]

Keys(rows) == [i \in DOMAIN rows |-> rows[i].timestamp]

KeySet(rows) == {rows[i].timestamp : i \in DOMAIN rows}

ValueColumns(columns) == SelectSeq(columns, LAMBDA c : c # "timestamp")

RawTable(label, rows) ==
    [columns |-> <<"timestamp", label>>, index_name |-> "", rows |-> rows]

EmptyFrame == [columns |-> <<>>, index_name |-> "", rows |-> <<>>]

\* ------------------------------------------------- index_by_timestamp
\* pandas reducers over one group's cells of one column; missing cells are
\* skipped, an all-missing group sums to 0 and counts 0.
Present(cells) == SelectSeq(cells, LAMBDA c : c # NaN)

Numbers(cells) == [i \in DOMAIN Present(cells) |-> Present(cells)[i][1]]

\* mutant: min and max start from 0 instead of from the group's own values
AggSeeded(rule, cells) ==
    LET p == Present(cells)
        n == Numbers(cells)
    IN CASE rule = "first" -> IF p = <<>> THEN NaN ELSE p[1]
         [] rule = "last"  -> IF p = <<>> THEN NaN ELSE p[Len(p)]
         [] rule = "sum"   -> <<SumSeq(n)>>
         [] rule = "min"   -> IF p = <<>> THEN NaN ELSE <<Min(Range(n) \cup {0})>>
         [] rule = "max"   -> IF p = <<>> THEN NaN ELSE <<Max(Range(n) \cup {0})>>
         [] rule = "count" -> <<Len(p)>>

Agg(rule, cells) ==
    LET p == Present(cells)
        n == Numbers(cells)
    IN CASE rule = "first" -> IF p = <<>> THEN NaN ELSE p[1]
         [] rule = "last"  -> IF p = <<>> THEN NaN ELSE p[Len(p)]
         [] rule = "sum"   -> <<SumSeq(n)>>
         [] rule = "min"   -> IF p = <<>> THEN NaN ELSE <<Min(Range(n))>>
         [] rule = "max"   -> IF p = <<>> THEN NaN ELSE <<Max(Range(n))>>
         [] rule = "count" -> <<Len(p)>>

\* mutant: every row is a group of its own (no de-duplication)
GroupRowsNoDedup(rows) == [i \in DOMAIN rows |-> <<rows[i]>>]

\* df.groupby("timestamp"): one group per distinct key, keys ascending,
\* each group holding its rows in input order
GroupRows(rows) ==
    LET keys == SortedSeq(KeySet(rows))
    IN [i \in DOMAIN keys |->
           SelectSeq(rows, LAMBDA r : r.timestamp = keys[i])]

\* mutant: the reducer sees the whole column instead of the group
AggGroupWholeColumn(rule, group, all, width) ==
    Row(group[1].timestamp,
        [j \in 1..width |-> Agg(rule, [k \in DOMAIN all |-> all[k].vals[j]])])

\* .agg(rule) on one group: the rule reduces every value column of the group
AggGroup(rule, group, all, width) ==
    Row(group[1].timestamp,
        [j \in 1..width |-> Agg(rule, [k \in DOMAIN group |-> group[k].vals[j]])])

\* df.groupby("timestamp", as_index=False).agg(rule)
GroupByAgg(rows, rule, width) ==
    LET groups == GroupRows(rows)
    IN [i \in DOMAIN groups |-> AggGroup(rule, groups[i], rows, width)]

HasDuplicates(s) == \E i, j \in DOMAIN s : i # j /\ s[i] = s[j]

Outcome(err, out, log) == [err |-> err, out |-> out, log |-> log]

Pending == Outcome("pending", EmptyFrame, <<>>)

\* no_dup_df.set_index("timestamp", verify_integrity=True) and the
\* informational event; a ValueError of set_index is re-raised as ValueError
SetIndexAndLog(table, no_dup_rows) ==
    IF HasDuplicates(Keys(no_dup_rows))
    THEN Outcome("ValueError", EmptyFrame, <<>>)
    ELSE Outcome("none",
                 [columns |-> ValueColumns(table.columns),
                  index_name |-> "timestamp",
                  rows |-> no_dup_rows],
                 IF Len(table.rows) # Len(no_dup_rows)
                 THEN <<Len(table.rows) - Len(no_dup_rows)>>
                 ELSE <<>>)

\* index_by_timestamp(df, aggregation_function).  The key "timestamp" is a
\* column of a raw table; for a table that carries it as its index the
\* grouping is by index level, and whether as_index=False then keeps the key
\* as a column depends on the pandas build (keep_level); without it
\* set_index raises KeyError, which the function does not catch.
index_by_timestamp(table, rule, keep_level) ==
    LET width == Len(ValueColumns(table.columns))
    IN IF \E i \in DOMAIN table.columns : table.columns[i] = "timestamp"
       THEN SetIndexAndLog(table, GroupByAgg(table.rows, rule, width))
       ELSE IF table.index_name = "timestamp" /\ keep_level
       THEN SetIndexAndLog(table, GroupByAgg(table.rows, rule, width))
       ELSE Outcome("KeyError", EmptyFrame, <<>>)

\* the caller's reset_index(): the index becomes the first column again
ResetIndex(table) ==
    [columns |-> <<"timestamp">> \o table.columns,
     index_name |-> "",
     rows |-> table.rows]

\* ------------------------------------------------ outer_join_by_timestamp
NaNs(width) == [j \in 1..width |-> NaN]

RECURSIVE Concat(_)
Concat(seqs) == IF seqs = <<>> THEN <<>> ELSE Head(seqs) \o Concat(Tail(seqs))

\* the cells frame holds at timestamp t, missing markers when it has no row
CellsAt(frame, t) ==
    IF t \in KeySet(frame.rows)
    THEN (CHOOSE r \in Range(frame.rows) : r.timestamp = t).vals
    ELSE NaNs(Len(frame.columns))

\* mutant: how="inner", only the timestamps all frames share are kept
JoinIndexInner(frames) ==
    SortedSeq({t \in KeySet(frames[1].rows) :
                  \A i \in DOMAIN frames : t \in KeySet(frames[i].rows)})

\* mutant: how="left", only the first frame's timestamps are kept
JoinIndexLeft(frames) == SortedSeq(KeySet(frames[1].rows))

\* the row keys of dfs[0].join(dfs[1:], how="outer"): the union of the indexes
JoinIndex(frames) ==
    SortedSeq(UNION {KeySet(frames[i].rows) : i \in DOMAIN frames})

\* outer_join_by_timestamp(dfs): the frames side by side in list order over
\* the joined index; pd.DataFrame() for the empty list
outer_join_by_timestamp(frames) ==
    IF frames # <<>>
    THEN LET index == JoinIndex(frames)
         IN [columns |-> Concat([i \in DOMAIN frames |-> frames[i].columns]),
             index_name |-> "timestamp",
             rows |-> [k \in DOMAIN index |->
                          Row(index[k],
                              Concat([i \in DOMAIN frames |->
                                         CellsAt(frames[i], index[k])]))]]
    ELSE EmptyFrame

\* ------------------------------------------------------------------ merge
NoneArg == [is_none |-> TRUE, map |-> [l \in {} |-> "first"]]

Dict(m) == [is_none |-> FALSE, map |-> m]

\* mutant: the default of the lookup is "last"
ResolveRuleDefaultLast(arg, label) ==
    LET map == IF arg.is_none THEN [l \in {} |-> "first"] ELSE arg.map
    IN IF label \in DOMAIN map THEN map[label] ELSE "last"

\* aggregation_functions = {} when None; aggregation_functions.get(label, "first")
ResolveRule(arg, label) ==
    LET map == IF arg.is_none THEN [l \in {} |-> "first"] ELSE arg.map
    IN IF label \in DOMAIN map THEN map[label] ELSE "first"

\* mutant: the second assertion is missing
ShapeAssertsLenOnly(cols) == Len(cols) = 2

\* assert len(cols) == 2; assert cols[0] == "timestamp"
ShapeAsserts(cols) == Len(cols) = 2 /\ cols[1] = "timestamp"

MergeOutcome(err, out, frames, log) ==
    [err |-> err, out |-> out, indexed_dfs |-> frames, log |-> log]

MergePending == MergeOutcome("pending", EmptyFrame, <<>>, <<>>)

\* the loop of merge from table i on; frames and log are what the earlier
\* iterations appended and logged.  An exception leaves merge at once.
RECURSIVE MergeLoop(_, _, _, _, _, _)
MergeLoop(tables, i, arg, frames, log, keep_level) ==
    IF i > Len(tables)
    THEN MergeOutcome("none", outer_join_by_timestamp(frames), frames, log)
    ELSE LET cols == tables[i].columns
         IN IF ~ShapeAsserts(cols)
            THEN MergeOutcome("AssertionError", EmptyFrame, frames, log)
            ELSE LET r == index_by_timestamp(tables[i],
                                             ResolveRule(arg, cols[2]),
                                             keep_level)
                 IN IF r.err # "none"
                    THEN MergeOutcome(r.err, EmptyFrame, frames, log)
                    ELSE MergeLoop(tables, i + 1, arg, Append(frames, r.out),
                                   log \o r.log, keep_level)

merge(tables, arg, keep_level) == MergeLoop(tables, 1, arg, <<>>, <<>>, keep_level)

\* ------------------------------------------------------------- downsample
\* instants of the wide table in units of 10 s since the epoch: 3 is
\* 00:00:30 and 7 is 00:01:10; negative instants lie before the epoch
DownTimestamps == {-7, -3, -1, 0, 3, 5, 7}

Timedeltas == {"1min", "40s", "20s"}

\* pd.Timedelta(to_offset(timedelta)).value, in units of 10 s
TimedeltaValue(td) ==
    CASE td = "1min" -> 6
      [] td = "40s" -> 4
      [] td = "20s" -> 2

\* mutant: the quotient is truncated toward zero
round_timestamps_trunc(t, td) ==
    LET v == TimedeltaValue(td)
    IN IF t >= 0 THEN (t \div v) * v ELSE 0 - (((0 - t) \div v) * v)

\* mutant: the quotient is rounded up
round_timestamps_ceil(t, td) ==
    LET v == TimedeltaValue(td)
    IN (0 - ((0 - t) \div v)) * v

\* _round_timestamps: (timestamps.value // td.value) * td.value, where //
\* rounds toward minus infinity
round_timestamps(t, td) ==
    LET v == TimedeltaValue(td)
    IN (t \div v) * v

KeyedRows(table, td) ==
    [i \in DOMAIN table.rows |->
        Row(round_timestamps(table.rows[i].timestamp, td), table.rows[i].vals)]

\* mutant: resample-like, every bin between the first and the last key gets
\* a row
downsample_filled(table, td, rule) ==
    LET keyed == KeyedRows(table, td)
        v == TimedeltaValue(td)
        width == Len(table.columns)
        keys == IF keyed = <<>> THEN <<>>
                ELSE SortedSeq({k \in Min(KeySet(keyed))..Max(KeySet(keyed)) :
                                   k % v = 0})
    IN [columns |-> table.columns,
        index_name |-> "",
        rows |-> [i \in DOMAIN keys |->
                     LET g == SelectSeq(keyed, LAMBDA r : r.timestamp = keys[i])
                     IN Row(keys[i],
                            [j \in 1..width |->
                                Agg(rule, [k \in DOMAIN g |-> g[k].vals[j]])])]]

\* downsample: joined_df.groupby(_round_timestamps).agg(aggregation_function)
downsample(table, td, rule) ==
    [columns |-> table.columns,
     index_name |-> "",
     rows |-> GroupByAgg(KeyedRows(table, td), rule, Len(table.columns))]

\* ------------------------------------- timeframes_by_source, check_households
\* resources.Koffer
Sources == {"koffer1", "koffer2"}

\* the instants a timeframe is bounded by (days)
Days == 1..4

Timeframe(tag, source, oldest, newest) ==
    [tag |-> tag, source |-> source,
     oldest_record |-> oldest, newest_record |-> newest]

\* mutant: koffer1's list is the first household's own timeframes list
TbsRefsAliased(n) == [koffer1 |-> 1, koffer2 |-> n + 2]

\* tbs = dict(koffer1=[], koffer2=[]): two new list objects, placed behind
\* the n lists the households own
TbsRefs(n) == [koffer1 |-> n + 1, koffer2 |-> n + 2]

\* mutant: the inner loop runs once, after the outer one, over the last
\* household only
AllTimeframesLastHousehold(hp, hs) ==
    IF hs = <<>> THEN <<>> ELSE hp[hs[Len(hs)]]

\* for household in households.values(): for timeframe in household.timeframes
AllTimeframes(hp, hs) == Concat([h \in DOMAIN hs |-> hp[hs[h]]])

\* timeframes_by_source: the timeframes of all households, in the order of
\* households.values() and of each timeframes list, appended to the list of
\* their source.  Returns the heap with the two lists and their references.
timeframes_by_source(hp, hs) ==
    LET n == Len(hs)
        tbs == TbsRefs(n)
        all == AllTimeframes(hp, hs)
    IN [tbs |-> tbs,
        heap |-> [r \in 1..(n + 2) |->
                     IF r = tbs.koffer1
                     THEN SelectSeq(all, LAMBDA tf : tf.source = "koffer1")
                     ELSE IF r = tbs.koffer2
                     THEN SelectSeq(all, LAMBDA tf : tf.source = "koffer2")
                     ELSE IF r \in DOMAIN hp THEN hp[r] ELSE <<>>]]

\* x placed behind every element whose key is not greater (stable)
InsertByNewest(sorted, x) ==
    LET before == SelectSeq(sorted, LAMBDA y : y.newest_record <= x.newest_record)
        after == SelectSeq(sorted, LAMBDA y : y.newest_record > x.newest_record)
    IN before \o <<x>> \o after

\* timeframes.sort(key=lambda tf: tf.newest_record): ascending and stable
RECURSIVE SortByNewest(_)
SortByNewest(s) ==
    IF s = <<>> THEN <<>>
    ELSE InsertByNewest(SortByNewest(SubSeq(s, 1, Len(s) - 1)), s[Len(s)])

\* t1.newest_record > t2.oldest_record for t1, t2 = timeframes[i - 1], timeframes[i]
OverlapNext(s, i) == s[i - 1].newest_record > s[i].oldest_record

\* the first adjacent pair of the sorted list that fails the scan, if any
FirstOffence(s) ==
    LET bad == {i \in 2..Len(s) : OverlapNext(s, i)}
    IN IF bad = {} THEN <<>> ELSE <<s[Min(bad) - 1], s[Min(bad)]>>

CheckOutcome(err, pair) == [err |-> err, pair |-> pair]

NotChecked == CheckOutcome("pending", <<>>)

\* check_households: group, sort each group in place, scan koffer1's list
\* and then koffer2's; the first offending pair raises ValueError.  Returns
\* the heap the call leaves behind and its outcome.
check_households(hp, hs) ==
    LET g == timeframes_by_source(hp, hs)
        sorted == [r \in DOMAIN g.heap |->
                      IF r \in {g.tbs.koffer1, g.tbs.koffer2}
                      THEN SortByNewest(g.heap[r]) ELSE g.heap[r]]
        o1 == FirstOffence(sorted[g.tbs.koffer1])
        o2 == FirstOffence(sorted[g.tbs.koffer2])
    IN [heap |-> sorted,
        outcome |-> IF o1 # <<>> THEN CheckOutcome("ValueError", o1)
                    ELSE IF o2 # <<>> THEN CheckOutcome("ValueError", o2)
                    ELSE CheckOutcome("none", <<>>)]

\* --------------------------- all_timeframe_records, all_household_records
\* AVAILABLE_SENSORS of resources/households.toml, in the order of the file
AVAILABLE_SENSORS == <<"Gas", "Temp">>

\* what one call of historical does: it returns the raw table of the sensor,
\* or leaves with requests.ConnectionError (session.get, no answer within
\* timeout=(10, 10)), requests.HTTPError (raise_for_status) or ValueError
\* (no JSON in the response, "" or "{}", a record that fails validation)
FailureKinds == {"ConnectionError", "HTTPError", "ValueError"}

Fetched(table) == [kind |-> "ok", table |-> table]

Failed(kind) == [kind |-> kind, table |-> EmptyFrame]

\* except (requests.HTTPError, ValueError)
Caught == {"HTTPError", "ValueError"}

FetchOutcome(err, attempted, warned, tables, out) ==
    [err |-> err, attempted |-> attempted, warned |-> warned,
     dfs |-> tables, out |-> out]

\* the loop of all_timeframe_records from sensor j on, then merge(dfs).
\* attempted: the sensors historical was called for; warned: the sensors of
\* the warnings; an exception that is not caught leaves the function.
RECURSIVE FetchLoop(_, _, _, _, _, _)
FetchLoop(responses, j, attempted, warned, tables, keep_level) ==
    IF j > Len(AVAILABLE_SENSORS)
    THEN LET m == merge(tables, NoneArg, keep_level)
         IN FetchOutcome(m.err, attempted, warned, tables, m.out)
    ELSE LET sensor == AVAILABLE_SENSORS[j]
             r == responses[j]
         IN IF r.kind = "ok"
            THEN FetchLoop(responses, j + 1, Append(attempted, sensor), warned,
                           Append(tables, r.table), keep_level)
            ELSE IF r.kind \in Caught
            THEN FetchLoop(responses, j + 1, Append(attempted, sensor),
                           Append(warned, sensor), tables, keep_level)
            ELSE FetchOutcome(r.kind, Append(attempted, sensor), warned,
                              tables, EmptyFrame)

all_timeframe_records(responses, keep_level) ==
    FetchLoop(responses, 1, <<>>, <<>>, <<>>, keep_level)

\* the column labels of the frames in the order of their first appearance
RECURSIVE UnionColumns(_)
UnionColumns(frames) ==
    IF frames = <<>> THEN <<>>
    ELSE LET rest == UnionColumns(SubSeq(frames, 1, Len(frames) - 1))
             last == frames[Len(frames)].columns
         IN rest \o SelectSeq(last, LAMBDA c : c \notin Range(rest))

\* the cell of a row of frame under the column label c
CellUnder(frame, row, c) ==
    IF c \in Range(frame.columns)
    THEN row.vals[CHOOSE k \in DOMAIN frame.columns : frame.columns[k] = c]
    ELSE NaN

\* pd.concat(frames, axis="index"): the rows of the frames one after the
\* other over the union of the columns, the index labels taken as they are;
\* the index keeps its name when all frames agree on it
ConcatIndex(frames) ==
    LET columns == UnionColumns(frames)
        names == {frames[i].index_name : i \in DOMAIN frames}
    IN [columns |-> columns,
        index_name |-> IF Cardinality(names) = 1
                       THEN CHOOSE n \in names : TRUE ELSE "",
        rows |-> Concat([i \in DOMAIN frames |->
                    [k \in DOMAIN frames[i].rows |->
                        Row(frames[i].rows[k].timestamp,
                            [c \in DOMAIN columns |->
                                CellUnder(frames[i], frames[i].rows[k],
                                          columns[c])])]])]

HouseholdOutcome(err, out) == [err |-> err, out |-> out]

\* the list comprehension of all_household_records from timeframe i on, then
\* pd.concat, which raises ValueError when there is nothing to concatenate
RECURSIVE HouseholdLoop(_, _, _, _)
HouseholdLoop(fs, i, timeframe_dfs, keep_level) ==
    IF i > Len(fs)
    THEN IF timeframe_dfs = <<>>
         THEN HouseholdOutcome("ValueError", EmptyFrame)
         ELSE HouseholdOutcome("none", ConcatIndex(timeframe_dfs))
    ELSE LET r == all_timeframe_records(fs[i].responses, keep_level)
         IN IF r.err # "none"
            THEN HouseholdOutcome(r.err, EmptyFrame)
            ELSE HouseholdLoop(fs, i + 1, Append(timeframe_dfs, r.out),
                               keep_level)

all_household_records(fs, keep_level) == HouseholdLoop(fs, 1, <<>>, keep_level)

\* ------------------------------------------------------ specification 1
\* one raw single-sensor table is indexed, then its output is indexed again
RawRows == SeqsUpTo({Row(t, <<c>>) : t \in Timestamps, c \in Cell}, MaxLen)

IndexIdle == df = EmptyFrame /\ indexed = Pending /\ reindexed = Pending

NotJoined == [p |-> <<>>, out |-> EmptyFrame]

MergeIdle ==
    /\ dfs = <<>>
    /\ aggregation_functions = NoneArg
    /\ merged = MergePending
    /\ joined_perm = NotJoined

DownIdle == joined_df = EmptyFrame /\ timedelta = "" /\ downsampled = EmptyFrame

NotRechecked == [lists |-> <<>>, outcome |-> NotChecked]

CheckIdle ==
    /\ households = <<>>
    /\ heap = <<>>
    /\ checked = NotChecked
    /\ rechecked = NotRechecked

NoTimeframeRecords ==
    [timeframe |-> 0, outcome |-> FetchOutcome("pending", <<>>, <<>>, <<>>, EmptyFrame)]

NoHouseholdRecords == HouseholdOutcome("pending", EmptyFrame)

FetchIdle ==
    /\ fetches = <<>>
    /\ timeframe_records = NoTimeframeRecords
    /\ household_records = NoHouseholdRecords

InitIndex ==
    /\ pc = "start"
    /\ df \in {RawTable("Gas", rows) : rows \in RawRows}
    /\ aggregation_function \in AggRules
    /\ level_key_kept \in BOOLEAN
    /\ indexed = Pending
    /\ reindexed = Pending
    /\ MergeIdle
    /\ DownIdle
    /\ CheckIdle
    /\ FetchIdle

IndexRaw ==
    /\ pc = "start"
    /\ indexed' = index_by_timestamp(df, aggregation_function, level_key_kept)
    /\ pc' = "indexed"
    /\ UNCHANGED <<df, aggregation_function, level_key_kept, reindexed,
                   mergeVars, downVars, checkVars, fetchVars>>

\* the output is passed back in as it is (timestamp is its index)
ReindexOutput ==
    /\ pc = "indexed"
    /\ indexed.err = "none"
    /\ reindexed' = index_by_timestamp(indexed.out, aggregation_function,
                                       level_key_kept)
    /\ pc' = "reindexed"
    /\ UNCHANGED <<df, aggregation_function, level_key_kept, indexed,
                   mergeVars, downVars, checkVars, fetchVars>>

\* the output is passed back in as a raw table (timestamp a column again)
ReindexReset ==
    /\ pc = "indexed"
    /\ indexed.err = "none"
    /\ reindexed' = index_by_timestamp(ResetIndex(indexed.out),
                                       aggregation_function, level_key_kept)
    /\ pc' = "reindexed_raw"
    /\ UNCHANGED <<df, aggregation_function, level_key_kept, indexed,
                   mergeVars, downVars, checkVars, fetchVars>>

NextIndex == IndexRaw \/ ReindexOutput \/ ReindexReset

SpecIndex == InitIndex /\ [][NextIndex]_vars

\* ------------------------------------------------------ specification 2
\* merge is called on a list of raw tables, then outer_join_by_timestamp on
\* a permutation of the indexed series merge built
MergeRowKinds == {Row(t, <<c>>) : t \in Timestamps, c \in FewCells}

\* tables that break the caller contract of merge
BadTables(label) ==
    {[columns |-> <<"timestamp">>, index_name |-> "",
      rows |-> <<Row(1, <<>>)>>],
     [columns |-> <<"timestamp", label, "extra">>, index_name |-> "",
      rows |-> <<Row(1, <<<<1>>, <<2>>>>)>>],
     [columns |-> <<label, "timestamp">>, index_name |-> "",
      rows |-> <<Row(1, <<<<1>>>>), Row(1, <<<<2>>>>)>>]}

\* the tables labelled label with len rows; the ill-shaped ones for len = -1
TablesOfLen(label, len) ==
    IF len < 0 THEN BadTables(label)
    ELSE {RawTable(label, rows) : rows \in [1..len -> MergeRowKinds]}

\* row counts of n tables whose well-shaped tables hold at most
\* MaxMergeRows rows together
RowCounts(n) ==
    {c \in [1..n -> -1..MaxMergeRows] :
        SumSeq([i \in 1..n |-> IF c[i] < 0 THEN 0 ELSE c[i]]) <= MaxMergeRows}

RECURSIVE Product(_)
Product(sets) ==
    IF sets = <<>> THEN {<<>>}
    ELSE {<<h>> \o t : h \in Head(sets), t \in Product(Tail(sets))}

\* the lists of n tables, the k-th labelled LabelSeq[k], with row counts c
TableLists(n, c) == Product([i \in 1..n |-> TablesOfLen(LabelSeq[i], c[i])])

AggArgs ==
    {NoneArg,
     Dict([l \in {} |-> "first"]),
     Dict([l \in {"Gas"} |-> "sum"]),
     Dict([l \in {"Temp", "Hum", "CO2"} |-> IF l = "Temp" THEN "max" ELSE "count"])}

InitMerge ==
    /\ pc = "start"
    /\ \E n \in 0..MaxTables : \E c \in RowCounts(n) : dfs \in TableLists(n, c)
    /\ aggregation_functions \in AggArgs
    /\ merged = MergePending
    /\ joined_perm = NotJoined
    /\ aggregation_function = "first"
    /\ level_key_kept = FALSE  \* not read: merge indexes raw tables only
    /\ IndexIdle
    /\ DownIdle
    /\ CheckIdle
    /\ FetchIdle

Merge ==
    /\ pc = "start"
    /\ merged' = merge(dfs, aggregation_functions, level_key_kept)
    /\ pc' = "merged"
    /\ UNCHANGED <<dfs, aggregation_functions, joined_perm,
                   aggregation_function, level_key_kept, indexVars, downVars,
                   checkVars, fetchVars>>

Permuted(s, p) == [i \in DOMAIN s |-> s[p[i]]]

JoinPermuted ==
    /\ pc = "merged"
    /\ merged.err = "none"
    /\ \E p \in Permutations(DOMAIN merged.indexed_dfs) :
           joined_perm' =
               [p |-> p,
                out |-> outer_join_by_timestamp(Permuted(merged.indexed_dfs, p))]
    /\ pc' = "joined_perm"
    /\ UNCHANGED <<dfs, aggregation_functions, merged,
                   aggregation_function, level_key_kept, indexVars, downVars,
                   checkVars, fetchVars>>

NextMerge == Merge \/ JoinPermuted

SpecMerge == InitMerge /\ [][NextMerge]_vars

\* ------------------------------------------------------ specification 3
\* downsample is called on a wide table of two sensor columns
WideTables ==
    {[columns |-> <<"Gas", "Temp">>,
      index_name |-> "timestamp",
      rows |-> [i \in DOMAIN SortedSeq(K) |-> Row(SortedSeq(K)[i], cells[i])]] :
        <<K, cells>> \in
            UNION {{<<K, c>> : c \in [1..Cardinality(K) -> FewCells \X FewCells]} :
                      K \in {K \in SUBSET DownTimestamps : Cardinality(K) <= MaxRows}}}

DownRules == {"sum", "first", "count"}

InitDown ==
    /\ pc = "start"
    /\ joined_df \in WideTables
    /\ timedelta \in Timedeltas
    /\ aggregation_function \in DownRules
    /\ downsampled = EmptyFrame
    /\ level_key_kept = FALSE  \* not read by downsample
    /\ IndexIdle
    /\ MergeIdle
    /\ CheckIdle
    /\ FetchIdle

Downsample ==
    /\ pc = "start"
    /\ downsampled' = downsample(joined_df, timedelta, aggregation_function)
    /\ pc' = "downsampled"
    /\ UNCHANGED <<joined_df, timedelta, aggregation_function, level_key_kept,
                   indexVars, mergeVars, checkVars, fetchVars>>

NextDown == Downsample

SpecDown == InitDown /\ [][NextDown]_vars

\* ------------------------------------------------------ specification 4
\* check_households is called on a mapping of households, then on the same
\* timeframes in another order
Windows == {w \in Days \X Days : w[1] <= w[2]}

TagSeq == <<"haushalt1", "haushalt2", "haushalt3", "haushalt4">>

TimeframesOf(h) ==
    {Timeframe(TagSeq[h], s, w[1], w[2]) : s \in Sources, w \in Windows}

\* how many timeframes each of n households owns
HouseholdSizes(n) ==
    {c \in [1..n -> 0..MaxTimeframes] : SumSeq(c) <= MaxTimeframes}

InitCheck ==
    /\ pc = "start"
    /\ \E n \in 0..MaxHouseholds : \E c \in HouseholdSizes(n) :
           /\ households = [h \in 1..n |-> h]
           /\ heap \in Product([h \in 1..n |-> [1..c[h] -> TimeframesOf(h)]])
    /\ checked = NotChecked
    /\ rechecked = NotRechecked
    /\ aggregation_function = "first"
    /\ level_key_kept = FALSE  \* not read by check_households
    /\ IndexIdle
    /\ MergeIdle
    /\ DownIdle
    /\ FetchIdle

CheckHouseholds ==
    /\ pc = "start"
    /\ heap' = check_households(heap, households).heap
    /\ checked' = check_households(heap, households).outcome
    /\ pc' = "checked"
    /\ UNCHANGED <<households, rechecked, aggregation_function, level_key_kept,
                   indexVars, mergeVars, downVars, fetchVars>>

Reverse(s) == [i \in DOMAIN s |-> s[Len(s) + 1 - i]]

\* the households' lists in another order: the mapping reversed, every
\* timeframes list reversed, or both
Reordered(lists, mode) ==
    CASE mode = "households" -> Reverse(lists)
      [] mode = "timeframes" -> [h \in DOMAIN lists |-> Reverse(lists[h])]
      [] mode = "both" -> Reverse([h \in DOMAIN lists |-> Reverse(lists[h])])

\* a second call, on the same timeframes supplied in another order
CheckReordered ==
    /\ pc = "checked"
    /\ \E mode \in {"households", "timeframes", "both"} :
           LET lists == Reordered([h \in DOMAIN households |-> heap[households[h]]], mode)
           IN rechecked' =
                  [lists |-> lists,
                   outcome |-> check_households(lists, [h \in DOMAIN lists |-> h]).outcome]
    /\ pc' = "rechecked"
    /\ UNCHANGED <<households, heap, checked, aggregation_function,
                   level_key_kept, indexVars, mergeVars, downVars, fetchVars>>

NextCheck == CheckHouseholds \/ CheckReordered

SpecCheck == InitCheck /\ [][NextCheck]_vars

\* ------------------------------------------------------ specification 5
\* the records of one timeframe and of one whole household are obtained
\* the windows the household's timeframes are taken from; each ends at the
\* instant the next one starts
FetchWindows == {<<1, 2>>, <<2, 3>>, <<3, 4>>}

HouseholdTimeframe(w) == Timeframe("haushalt1", "koffer1", w[1], w[2])

\* the windows of a household of n timeframes that check_households accepts
ValidWindowSeqs(n) ==
    {ws \in [1..n -> FetchWindows] :
        check_households(<<[i \in 1..n |-> HouseholdTimeframe(ws[i])]>>,
                         <<1>>).outcome.err = "none"}

\* the tables historical returns for a window: records within its bounds
FetchedRows(w) == {<<>>} \cup {<<Row(t, <<<<1>>>>)>> : t \in w[1]..w[2]}

Responses(sensor, w) ==
    {Failed(k) : k \in FailureKinds}
        \cup {Fetched(RawTable(sensor, rows)) : rows \in FetchedRows(w)}

\* a timeframe of the household with what its fetches do
FetchesOf(w) ==
    {[timeframe |-> HouseholdTimeframe(w), responses |-> rs] :
        rs \in Product([j \in DOMAIN AVAILABLE_SENSORS |->
                           Responses(AVAILABLE_SENSORS[j], w)])}

InitFetch ==
    /\ pc = "start"
    /\ \E n \in 0..MaxTimeframes : \E ws \in ValidWindowSeqs(n) :
           fetches \in Product([i \in 1..n |-> FetchesOf(ws[i])])
    /\ timeframe_records = NoTimeframeRecords
    /\ household_records = NoHouseholdRecords
    /\ aggregation_function = "first"
    /\ level_key_kept = FALSE  \* read only for tables indexed by timestamp
    /\ IndexIdle
    /\ MergeIdle
    /\ DownIdle
    /\ CheckIdle

AllTimeframeRecords ==
    /\ pc = "start"
    /\ \E i \in DOMAIN fetches :
           timeframe_records' =
               [timeframe |-> i,
                outcome |-> all_timeframe_records(fetches[i].responses,
                                                  level_key_kept)]
    /\ pc' = "timeframe_done"
    /\ UNCHANGED <<fetches, household_records, aggregation_function,
                   level_key_kept, indexVars, mergeVars, downVars, checkVars>>

AllHouseholdRecords ==
    /\ pc = "start"
    /\ household_records' = all_household_records(fetches, level_key_kept)
    /\ pc' = "household_done"
    /\ UNCHANGED <<fetches, timeframe_records, aggregation_function,
                   level_key_kept, indexVars, mergeVars, downVars, checkVars>>

NextFetch == AllTimeframeRecords \/ AllHouseholdRecords

SpecFetch == InitFetch /\ [][NextFetch]_vars

\* ------------------------------------------------ claims on the indexer
\* the cells a table holds for timestamp t in its first value column
ValuesAt(rows, t) ==
    {rows[k].vals[1] : k \in {k \in DOMAIN rows : rows[k].timestamp = t}}

OccursOnce(rows, i) ==
    \A j \in DOMAIN rows : rows[j].timestamp = rows[i].timestamp => j = i

UniqueKeys(rows) == ~HasDuplicates(Keys(rows))

\* rules that return x for the one-element group {x}, missing x included
SingletonPreserving == {"first", "last", "min", "max"}

\* C1: index_by_timestamp returns, for every raw table and every rule, one
\* entry per distinct input timestamp (no key repeated, key set equal to the
\* input's), and it logs an event exactly when len(input) - len(output) is
\* not zero, the event carrying that difference.
C1_OneEntryPerTimestamp ==
    pc # "start" =>
        /\ indexed.err = "none"
        /\ UniqueKeys(indexed.out.rows)
        /\ KeySet(indexed.out.rows) = KeySet(df.rows)
        /\ Len(indexed.out.rows) = Cardinality(KeySet(df.rows))
        /\ indexed.log =
               IF Len(df.rows) - Len(indexed.out.rows) # 0
               THEN <<Len(df.rows) - Len(indexed.out.rows)>>
               ELSE <<>>

C1_Witness ==
    /\ pc = "indexed"
    /\ Len(df.rows) = 3
    /\ Cardinality(KeySet(df.rows)) = 2
    /\ indexed.log = <<1>>

\* C2 (as stated): a timestamp that occurs once keeps its value whatever the
\* rule is.
C2_SingletonKeepsValueAnyRule ==
    pc # "start" =>
        \A i \in DOMAIN df.rows :
            OccursOnce(df.rows, i) =>
                ValuesAt(indexed.out.rows, df.rows[i].timestamp)
                    = {df.rows[i].vals[1]}

\* C2 (amended): the rule is applied to every group, one-element groups
\* included; a timestamp that occurs once keeps its value under first, last,
\* min and max, and under sum when the value is not missing; sum turns a
\* missing value into 0 and count turns every value into 1 or 0.
C2_SingletonUnderRule ==
    pc # "start" =>
        \A i \in DOMAIN df.rows :
            OccursOnce(df.rows, i) =>
                LET c == df.rows[i].vals[1]
                    r == aggregation_function
                IN ValuesAt(indexed.out.rows, df.rows[i].timestamp) =
                       {IF r \in SingletonPreserving THEN c
                        ELSE IF r = "sum" THEN (IF c = NaN THEN <<0>> ELSE c)
                        ELSE IF c = NaN THEN <<0>> ELSE <<1>>}

C2_Witness ==
    /\ pc = "indexed"
    /\ aggregation_function = "max"
    /\ \E i, j, k \in DOMAIN df.rows :
           /\ OccursOnce(df.rows, i)
           /\ j # k
           /\ df.rows[j].timestamp = df.rows[k].timestamp
           /\ df.rows[i].vals[1] = <<1>>
           /\ df.rows[j].vals[1] = <<2>>

SameContent(rowsA, rowsB) ==
    /\ KeySet(rowsA) = KeySet(rowsB)
    /\ \A t \in KeySet(rowsA) : ValuesAt(rowsA, t) = ValuesAt(rowsB, t)

CellOf(table, t, label) ==
    {table.rows[k].vals[j] :
        k \in {k \in DOMAIN table.rows : table.rows[k].timestamp = t},
        j \in {j \in DOMAIN table.columns : table.columns[j] = label}}

\* out is the outer join of the single-column frames
IsOuterJoin(frames, out) ==
    /\ UniqueKeys(out.rows)
    /\ KeySet(out.rows) = UNION {KeySet(frames[i].rows) : i \in DOMAIN frames}
    /\ Len(out.columns) = Len(frames)
    /\ \A k \in DOMAIN out.rows : Len(out.rows[k].vals) = Len(frames)
    /\ \A i \in DOMAIN frames :
           \A t \in KeySet(out.rows) :
               CellOf(out, t, frames[i].columns[1]) =
                   IF t \in KeySet(frames[i].rows)
                   THEN ValuesAt(frames[i].rows, t)
                   ELSE {NaN}

\* C4: outer_join_by_timestamp returns, for every list of indexed series
\* with distinct labels, a table whose row keys are exactly the union of the
\* inputs' timestamps and whose cell (t, s) is s's value at t or the missing
\* marker; the empty list gives a table with no rows and no columns.
C4_JoinIsOuter ==
    /\ (pc # "start" /\ merged.err = "none") =>
           /\ IsOuterJoin(merged.indexed_dfs, merged.out)
           /\ merged.indexed_dfs = <<>> =>
                  (merged.out.rows = <<>> /\ merged.out.columns = <<>>)
    /\ pc = "joined_perm" =>
           IsOuterJoin(Permuted(merged.indexed_dfs, joined_perm.p),
                       joined_perm.out)

C4_Witness ==
    /\ pc = "merged"
    /\ merged.err = "none"
    /\ Len(merged.indexed_dfs) = 2
    /\ KeySet(merged.indexed_dfs[1].rows) = {1}
    /\ KeySet(merged.indexed_dfs[2].rows) = {2}
    /\ Len(merged.out.rows) = 2
    /\ merged.out.rows[1].vals = <<<<1>>, NaN>>
    /\ merged.out.rows[2].vals = <<NaN, <<2>>>>

\* C5: joining a permutation of the list gives the same timestamps and the
\* same cell for every (timestamp, sensor); the columns follow the order of
\* the list that was joined.
C5_JoinCommutes ==
    pc = "joined_perm" =>
        /\ KeySet(joined_perm.out.rows) = KeySet(merged.out.rows)
        /\ \A t \in KeySet(merged.out.rows) :
               \A l \in Range(merged.out.columns) :
                   /\ CellOf(joined_perm.out, t, l) = CellOf(merged.out, t, l)
                   /\ Cardinality(CellOf(merged.out, t, l)) = 1
        /\ joined_perm.out.columns =
               [i \in DOMAIN merged.indexed_dfs |->
                   merged.indexed_dfs[joined_perm.p[i]].columns[1]]
        /\ merged.out.columns =
               [i \in DOMAIN merged.indexed_dfs |->
                   merged.indexed_dfs[i].columns[1]]

C5_Witness ==
    /\ pc = "joined_perm"
    /\ joined_perm.p = <<2, 1>>
    /\ joined_perm.out.columns = <<"Temp", "Gas">>
    /\ KeySet(merged.indexed_dfs[1].rows) = {1}
    /\ KeySet(merged.indexed_dfs[2].rows) = {2}
    /\ joined_perm.out.rows[1].vals = <<NaN, <<1>>>>

WellShaped(tables) ==
    \A i \in DOMAIN tables : tables[i].columns = <<"timestamp", LabelSeq[i]>>

\* the rule the claim ascribes to a label
ExpectedRule(label) ==
    IF aggregation_functions.is_none THEN "first"
    ELSE IF label \in DOMAIN aggregation_functions.map
    THEN aggregation_functions.map[label]
    ELSE "first"

GroupCells(rows, t) ==
    LET g == SelectSeq(rows, LAMBDA r : r.timestamp = t)
    IN [k \in DOMAIN g |-> g[k].vals[1]]

FirstBad(tables) ==
    Min({i \in DOMAIN tables : tables[i].columns # <<"timestamp", LabelSeq[i]>>})

\* C7: merge fails with an AssertionError and returns no table as soon as
\* it reaches a table that has not exactly two columns or whose first column
\* is not "timestamp": the tables before it have been indexed, no later one.
C7_MergeAssertsShape ==
    (pc # "start" /\ ~WellShaped(dfs)) =>
        /\ merged.err = "AssertionError"
        /\ merged.out = EmptyFrame
        /\ Len(merged.indexed_dfs) = FirstBad(dfs) - 1

C7_Witness ==
    /\ pc = "merged"
    /\ Len(dfs) = 2
    /\ dfs[2].columns = <<"Temp", "timestamp">>
    /\ merged.err = "AssertionError"
    /\ merged.log = <<1>>
    /\ Len(merged.indexed_dfs) = 1

\* ------------------------------------------------ claims on the downsampler
\* the output keys whose bin [k, k + w) holds the instant t
BinsOf(t, w) == {k \in KeySet(downsampled.rows) : k <= t /\ t < k + w}

\* the cells of column j of the input rows that lie in the bin [k, k + w)
BinCells(k, w, j) ==
    LET g == SelectSeq(joined_df.rows,
                       LAMBDA r : k <= r.timestamp /\ r.timestamp < k + w)
    IN [i \in DOMAIN g |-> g[i].vals[j]]

\* C8: every input row at instant t, negative t included, lies in exactly
\* one output bin; its key is a multiple of the width w, satisfies
\* key <= t < key + w and is what _round_timestamps returns for t and w
\* alone; each output row aggregates exactly the rows of its bin.
C8_FloorBinning ==
    pc = "downsampled" =>
        LET w == TimedeltaValue(timedelta)
        IN /\ \A k \in KeySet(downsampled.rows) : k % w = 0
           /\ \A i \in DOMAIN joined_df.rows :
                  LET t == joined_df.rows[i].timestamp
                  IN /\ Cardinality(BinsOf(t, w)) = 1
                     /\ BinsOf(t, w) = {round_timestamps(t, timedelta)}
           /\ \A r \in Range(downsampled.rows) :
                  \A j \in DOMAIN joined_df.columns :
                      r.vals[j] = Agg(aggregation_function,
                                      BinCells(r.timestamp, w, j))

C8_Witness ==
    /\ pc = "downsampled"
    /\ timedelta = "1min"
    /\ aggregation_function = "count"
    /\ KeySet(joined_df.rows) = {-7, -1}
    /\ Keys(downsampled.rows) = <<-12, -6>>

AtInstants3And7 ==
    /\ pc = "downsampled"
    /\ timedelta = "1min"
    /\ aggregation_function = "sum"
    /\ Keys(joined_df.rows) = <<3, 7>>

Number(c) == IF c = NaN THEN 0 ELSE c[1]

\* C9 (as stated): rows at 00:00:30 and 00:01:10 with bin width "1min" both
\* lie in the bin at 00:00, and under "sum" the output row at 00:00 holds in
\* each column the sum of both rows' values.
C9_BothRowsInFirstBin ==
    AtInstants3And7 =>
        /\ KeySet(downsampled.rows) = {0}
        /\ \A r \in Range(downsampled.rows) :
               \A j \in DOMAIN joined_df.columns :
                   r.vals[j] = <<Number(joined_df.rows[1].vals[j])
                                 + Number(joined_df.rows[2].vals[j])>>

\* C9 (amended): rows at 00:00:30 and 00:01:10 with bin width "1min" lie in
\* the bins at 00:00 and at 00:01; under "sum" the output has one row per
\* bin, holding in each column the value of the one row of that bin, a
\* missing value counting as 0.
C9_RowsInSeparateBins ==
    AtInstants3And7 =>
        /\ Keys(downsampled.rows) = <<0, 6>>
        /\ \A i \in 1..2 :
               \A j \in DOMAIN joined_df.columns :
                   downsampled.rows[i].vals[j]
                       = <<Number(joined_df.rows[i].vals[j])>>

C9_Witness ==
    /\ AtInstants3And7
    /\ joined_df.rows[1].vals = <<<<1>>, NaN>>
    /\ joined_df.rows[2].vals = <<<<2>>, <<1>>>>
    /\ Len(downsampled.rows) = 2

\* C10: the row keys of downsample's output are exactly the bins that hold
\* an input row, each once; a bin without input row is not in the output,
\* and an empty table gives an empty table.
C10_NoEmptyBins ==
    pc = "downsampled" =>
        LET w == TimedeltaValue(timedelta)
        IN /\ UniqueKeys(downsampled.rows)
           /\ \A k \in KeySet(downsampled.rows) :
                  \E t \in KeySet(joined_df.rows) : k <= t /\ t < k + w
           /\ \A t \in KeySet(joined_df.rows) :
                  \E k \in KeySet(downsampled.rows) : k <= t /\ t < k + w
           /\ joined_df.rows = <<>> => downsampled.rows = <<>>

C10_Witness ==
    /\ pc = "downsampled"
    /\ timedelta = "20s"
    /\ KeySet(joined_df.rows) = {-7, 7}
    /\ Keys(downsampled.rows) = <<-8, 6>>

\* ------------------------------------------ claims on the timeframe validator
\* the timeframes handed to check_households, in the order of the mapping
Supplied == Concat([h \in DOMAIN households |-> heap[households[h]]])

SameSourcePairs ==
    {p \in (DOMAIN Supplied) \X (DOMAIN Supplied) :
        p[1] # p[2] /\ Supplied[p[1]].source = Supplied[p[2]].source}

\* C11: two timeframes (d1, d3) and (d2, d4) with d1 < d2 < d3 < d4 make
\* check_households raise when they have the same source, in whichever
\* households they sit; timeframes of different sources never make it raise.
C11_SameSourceOnly ==
    pc # "start" =>
        /\ (\E p \in SameSourcePairs :
               LET a == Supplied[p[1]]
                   b == Supplied[p[2]]
               IN /\ a.oldest_record < b.oldest_record
                  /\ b.oldest_record < a.newest_record
                  /\ a.newest_record < b.newest_record)
               => checked.err = "ValueError"
        /\ SameSourcePairs = {} => checked.err = "none"

C11_Witness ==
    /\ pc = "checked"
    /\ Len(households) = 2
    /\ heap[1] = <<Timeframe("haushalt1", "koffer2", 2, 4)>>
    /\ heap[2] = <<Timeframe("haushalt2", "koffer2", 1, 3)>>
    /\ checked = CheckOutcome("ValueError",
                              <<Timeframe("haushalt2", "koffer2", 1, 3),
                                Timeframe("haushalt1", "koffer2", 2, 4)>>)

\* C12: two timeframes of one source, one's newest_record equal to the
\* other's oldest_record, do not make check_households raise, in whichever
\* order they are supplied.
C12_TouchingIsAccepted ==
    (pc # "start" /\ Len(Supplied) = 2) =>
        ((\E p \in SameSourcePairs :
             Supplied[p[1]].newest_record = Supplied[p[2]].oldest_record)
            => checked.err = "none")

\* the inclusive windows [oldest_record, newest_record] share an instant
WindowsIntersect(a, b) ==
    /\ a.oldest_record <= b.newest_record
    /\ b.oldest_record <= a.newest_record

\* C13: check_households raises ValueError if and only if two timeframes of
\* one source have inclusive windows with a non-empty intersection.
C13_RaisesIffWindowsIntersect ==
    pc # "start" =>
        (checked.err = "ValueError"
            <=> \E p \in SameSourcePairs :
                    WindowsIntersect(Supplied[p[1]], Supplied[p[2]]))

\* each window reaches beyond the other's start
StrictlyOverlap(a, b) ==
    /\ a.newest_record > b.oldest_record
    /\ b.newest_record > a.oldest_record

\* C14: check_households raises exactly when some two timeframes of one
\* source, adjacent in the sorted list or not, strictly overlap.
C14_RaisesIffSomePairOverlaps ==
    pc # "start" =>
        (checked.err = "ValueError"
            <=> \E p \in SameSourcePairs :
                    StrictlyOverlap(Supplied[p[1]], Supplied[p[2]]))

\* C16: check_households leaves the mapping and every household's
\* timeframes list as they were, members and order, whether it returns or
\* raises; only the lists timeframes_by_source built are sorted.
C16_InputUntouched ==
    [][/\ households' = households
       /\ \A h \in DOMAIN households :
              heap'[households[h]] = heap[households[h]]]_vars

C16_Witness ==
    /\ pc = "checked"
    /\ Len(households) = 1
    /\ heap[1] = <<Timeframe("haushalt1", "koffer1", 3, 4),
                   Timeframe("haushalt1", "koffer1", 1, 2)>>
    /\ heap[2] = <<Timeframe("haushalt1", "koffer1", 1, 2),
                   Timeframe("haushalt1", "koffer1", 3, 4)>>
    /\ checked.err = "none"

\* C18: whether check_households returns or raises depends only on the
\* timeframes supplied, not on the order of the households or of the
\* timeframes inside a household.
C18_OrderIndependent ==
    pc = "rechecked" => rechecked.outcome.err = checked.err

\* ------------------------------------------- claims on the orchestration
\* the responses of the timeframe all_timeframe_records was called for
RespondedTo == fetches[timeframe_records.timeframe].responses

SensorsWith(kinds) ==
    SelectSeq(AVAILABLE_SENSORS,
              LAMBDA sensor : \E j \in DOMAIN AVAILABLE_SENSORS :
                  AVAILABLE_SENSORS[j] = sensor /\ RespondedTo[j].kind \in kinds)

FetchedTables ==
    LET ok == SelectSeq(RespondedTo, LAMBDA r : r.kind = "ok")
    IN [j \in DOMAIN ok |-> ok[j].table]

\* C15: in all_timeframe_records a failing fetch never aborts the batch:
\* whichever sensors fail, for whichever reason, the function returns, every
\* sensor is fetched exactly once, exactly the failing ones are warned
\* about, and the result is the merge of the tables of the others.
C15_FailuresNeverAbort ==
    pc = "timeframe_done" =>
        LET r == timeframe_records.outcome
        IN /\ r.err = "none"
           /\ r.attempted = AVAILABLE_SENSORS
           /\ r.warned = SensorsWith(FailureKinds)
           /\ r.dfs = FetchedTables
           /\ r.out = merge(FetchedTables, NoneArg, level_key_kept).out

\* C17: the table all_household_records returns holds every timestamp in
\* at most one row, for a household of any number of timeframes.
C17_HouseholdTimestampsUnique ==
    (pc = "household_done" /\ household_records.err = "none") =>
        UniqueKeys(household_records.out.rows)

====
